---- MODULE Spec2Model ----
(***************************************************************************)
(* Model of the ABsmartly Claude Code bridge (src/index.js, the per-       *)
(* conversation server that starts at line 270): the process table, the    *)
(* line buffers, the SSE sinks, the session tracker, and the handlers that *)
(* change them.                                                            *)
(*                                                                         *)
(* Text is a sequence of tokens.  A token stands for a run of ASCII        *)
(* characters that no chunk boundary splits: "\n" is the line terminator,  *)
(* " " is white space, "{r" is the text of a JSON record up to its closing *)
(* brace (the letter names the record), "}" is the closing brace, and "x"  *)
(* is text that is not JSON.  data.toString() is the identity on such      *)
(* text.                                                                   *)
(*                                                                         *)
(* The state holds the maps of the bridge, the child processes that run    *)
(* and the responses whose connection is open.  A process leaves the state *)
(* with its 'exit' event, which is taken to follow its last 'data' event;  *)
(* a response leaves it with the 'close' event of its request.  step is    *)
(* what the handler that ran last did: the lines it gave to JSON.parse,    *)
(* the frames it wrote, the responses it ended, the processes it spawned   *)
(* and the records it wrote to a process input, in the order it did them.  *)
(***************************************************************************)
EXTENDS Integers, Sequences, FiniteSets, TLC

VARIABLES
    claudeProcesses,      \* conversation id -> pid, 0 when the map has no entry
    activeStreams,        \* conversation id -> response id, 0 when no entry
    outputBuffers,        \* conversation id -> <<>> (no entry) or <<buffer>>
    sessionTracking,      \* session id -> <<>> (no entry) or <<[conversationId, isResume]>>
    conversationMessages, \* conversation id -> <<>> (no entry) or <<message list>>
    conversationModels,   \* conversation id -> "" (no entry) or the model name
    procs,                \* pid -> the child process, FreeProc when there is none
    resps,                \* response id -> the SSE response, FreeResp when there is none
    timers,               \* pending setTimeout(sendUserMessage) calls, oldest first
    step                  \* the handler that ran last, and what it did

vars == <<claudeProcesses, activeStreams, outputBuffers, sessionTracking,
          conversationMessages, conversationModels, procs, resps, timers, step>>

-----------------------------------------------------------------------------
(* Bounds of the model *)

\* Child processes that exist at the same time.
MaxProcs == 2
\* SSE responses whose connection is open at the same time.
MaxResps == 2
\* Messages of one conversation: those in its history and those a timer holds.
MaxMessages == 2

Pids == 1..MaxProcs
Rids == 1..MaxResps

-----------------------------------------------------------------------------
(* Inputs *)

\* "s1" is a session id a client sends; "conv_1" is an id POST /conversations
\* generates for a request without session_id (conv_<Date.now()>).
SessionIds == {"s1"}
GeneratedIds == {"conv_1"}
ConvIds == SessionIds \cup GeneratedIds
Contents == {"hi", "again"}
Models == {"", "opus"}
Prompts == {"", "be brief"}

NL == "\n"
SP == " "

\* The texts of the records the CLI prints, up to the closing brace.
RecordTexts == {"{r", "{p", "{e", "{u", "{a", "{j", "{f", "{k", "{w", "{b", "{t", "{m", "{o"}

\* What a child process prints; the pipe cuts it into chunks anywhere.
JunkThenResult == <<"x", NL, "{r", "}", NL>>
TextThenResult == <<"{a", "}", NL, "{p", "}", NL>>
ErrorThenMore == <<"{e", "}", NL, SP, NL, "{o", "}", NL>>
Unterminated == <<"{u", "}", NL, "{t", "}", NL, "{r">>
Streams == {JunkThenResult, TextThenResult, ErrorThenMore, Unterminated}

\* A child process that prints one record and a terminator.
OneRecord(text) == <<text, "}", NL>>
RecordStreams == {OneRecord(text) : text \in {"{a", "{j", "{f", "{k", "{w", "{b", "{t", "{m", "{o"}}

-----------------------------------------------------------------------------
(* Strings *)

\* String.prototype.split('\n'): the pieces between the terminators, one more
\* piece than there are terminators.
RECURSIVE SplitFrom(_, _, _)
SplitFrom(s, i, piece) ==
    IF i > Len(s) THEN <<piece>>
    ELSE IF s[i] = NL THEN <<piece>> \o SplitFrom(s, i + 1, <<>>)
    ELSE SplitFrom(s, i + 1, Append(piece, s[i]))

Split(s) == SplitFrom(s, 1, <<>>)

\* String.prototype.trim()
RECURSIVE TrimLeft(_)
TrimLeft(s) == IF s # <<>> /\ Head(s) = SP THEN TrimLeft(Tail(s)) ELSE s

RECURSIVE TrimRight(_)
TrimRight(s) ==
    IF s # <<>> /\ s[Len(s)] = SP THEN TrimRight(SubSeq(s, 1, Len(s) - 1)) ELSE s

Trim(s) == TrimRight(TrimLeft(s))

\* The last piece with the white space around it removed.
LastTrimmed(s) == Trim(s[Len(s)])

\* The pieces put together again: the list without the pop.
RECURSIVE Joined(_)
Joined(s) == IF Len(s) = 1 THEN s[1] ELSE s[1] \o <<NL>> \o Joined(Tail(s))

\* lines.pop(): the last piece, and the pieces before it
Last(s) == s[Len(s)]
Front(s) == SubSeq(s, 1, Len(s) - 1)

-----------------------------------------------------------------------------
(* JSON *)

\* JSON.parse(line) succeeds on a record text, white space around it allowed.
IsJson(line) ==
    LET t == Trim(line) IN
    Len(t) = 2 /\ t[1] \in RecordTexts /\ t[2] = "}"

\* The value of a property an object does not have.
Undefined == "undefined"

\* The texts of text blocks: the JSON text of an object with the three fields
\* of the schema, of one whose response is the empty string, of one with no
\* action, the first with white space around it, and text that is not JSON.
SchemaJson == "{domChanges,response:ok,action:none}"
SchemaJsonEmptyResponse == "{domChanges,response:,action:none}"
SchemaJsonNoAction == "{domChanges,response:ok}"
PaddedSchemaJson == " {domChanges,response:ok,action:none} "
SchemaObject == [domChanges |-> "[]", response |-> "ok", action |-> "none"]

\* The content blocks of the assistant records; input <<>> stands for a block
\* with no input, text "" for a block with no text.
PlainText == [type |-> "text", text |-> "hello", input |-> <<>>]
SchemaText == [type |-> "text", text |-> SchemaJson, input |-> <<>>]
EmptyResponseText == [type |-> "text", text |-> SchemaJsonEmptyResponse, input |-> <<>>]
NoActionText == [type |-> "text", text |-> SchemaJsonNoAction, input |-> <<>>]
PaddedText == [type |-> "text", text |-> PaddedSchemaJson, input |-> <<>>]
EmptyText == [type |-> "text", text |-> "", input |-> <<>>]
ToolUse == [type |-> "tool_use", text |-> "", input |-> <<SchemaObject>>]

\* The object JSON.parse(line) returns.  error "" and result "" stand for an
\* absent field; message FALSE for a record with no message.content.
Record(type, result, error, message, content) ==
    [type |-> type, result |-> result, error |-> error, message |-> message,
     content |-> content]

Event(line) ==
    LET k == Trim(line)[1] IN
    CASE k = "{r" -> Record("result", "", "", FALSE, <<>>)
      [] k = "{p" -> Record("result", "ok", "", FALSE, <<>>)
      [] k = "{e" -> Record("error", "", "boom", FALSE, <<>>)
      [] k = "{u" -> Record("error", "", "", FALSE, <<>>)
      [] k = "{a" -> Record("assistant", "", "", TRUE, <<PlainText>>)
      [] k = "{j" -> Record("assistant", "", "", TRUE, <<SchemaText>>)
      [] k = "{f" -> Record("assistant", "", "", TRUE, <<EmptyResponseText>>)
      [] k = "{k" -> Record("assistant", "", "", TRUE, <<NoActionText>>)
      [] k = "{w" -> Record("assistant", "", "", TRUE, <<PaddedText>>)
      [] k = "{b" -> Record("assistant", "", "", TRUE, <<EmptyText>>)
      [] k = "{t" -> Record("assistant", "", "", TRUE, <<ToolUse>>)
      [] k = "{m" -> Record("assistant", "", "", FALSE, <<>>)
      [] OTHER    -> Record("system", "", "", FALSE, <<>>)

\* block.text.trim()
TrimText(text) == IF text = PaddedSchemaJson THEN SchemaJson ELSE text

\* JSON.parse of the trimmed text of a text block: <<>> when it throws, else
\* <<the parsed object>>.
ParseBlockText(text) ==
    CASE text = SchemaJson -> <<SchemaObject>>
      [] text = SchemaJsonEmptyResponse ->
             <<[domChanges |-> "[]", response |-> "", action |-> "none"]>>
      [] text = SchemaJsonNoAction ->
             <<[domChanges |-> "[]", response |-> "ok", action |-> Undefined]>>
      [] OTHER -> <<>>

\* JavaScript truthiness of a field value; "" is the empty string, and also
\* stands for a field of a record that is absent.
Truthy(v) == v \notin {"", Undefined}

-----------------------------------------------------------------------------
(* SSE frames: the object whose JSON text a res.write sends *)

\* The object of a tool_use frame travels in its data field, as the text of a
\* text frame does; the field is named input here to keep the two kinds of
\* value apart.
TextFrame(data) == [type |-> "text", data |-> data]
ToolUseFrame(obj) == [type |-> "tool_use", input |-> obj]
DoneFrame == [type |-> "done"]
ErrorFrame(data) == [type |-> "error", data |-> data]
FallbackText == "Response generated but encountered parsing error. Check server logs for details."
UnknownError == "Unknown error"

-----------------------------------------------------------------------------
(* What a handler does, in the order it does it *)

Parsed(line) == [op |-> "parse", line |-> line]
Wrote(r, frame) == [op |-> "write", res |-> r, frame |-> frame]
Ended(r) == [op |-> "end", res |-> r]
Spawned(p, args) == [op |-> "spawn", proc |-> p, args |-> args]
StdinWrote(p, message) == [op |-> "stdin", proc |-> p, message |-> message]
\* res.json(body), after res.status(status) if any; success is body.success,
\* FALSE for a body without it.
Answered(status, success) == [op |-> "answer", status |-> status, success |-> success]

\* proc is the process whose event the handler served, 0 for a request; sink
\* the response bound to the conversation as the handler started, 0 for none.
Step(action, conv, proc, sink, effects) ==
    [action |-> action, conv |-> conv, proc |-> proc, sink |-> sink,
     effects |-> effects]

\* The responses and the processes the state has no entry for.
FreeResp == [open |-> FALSE, conv |-> "", terminated |-> FALSE, ends |-> 0,
             late |-> FALSE, superseded |-> FALSE]
NoArgs == [model |-> "", resume |-> "", sessionId |-> "", systemPrompt |-> ""]
FreeProc == [running |-> FALSE, conv |-> "", args |-> NoArgs, stream |-> <<>>, pos |-> 0]

\* The lowest id that is free.
FreeRid(rs) == CHOOSE r \in Rids : ~rs[r].open /\ \A q \in Rids : q < r => rs[q].open
FreePid(ps) == CHOOSE p \in Pids : ~ps[p].running /\ \A q \in Pids : q < p => ps[q].running

-----------------------------------------------------------------------------
(* The translator: the body of the for loop of the stdout 'data' handler.  *)
(* h is what the loop reads and writes: h.streams is activeStreams,        *)
(* h.buffers is outputBuffers, h.resps the responses, h.effects what the   *)
(* handler did so far.                                                     *)

\* res.write(`data: ${JSON.stringify(frame)}\n\n`); terminated is whether the
\* last frame written is a done or an error frame, late whether a frame was
\* written after res.end().
Write(h, r, frame) ==
    [h EXCEPT !.resps = [@ EXCEPT ![r].terminated = frame.type \in {"done", "error"},
                                  ![r].late = @ \/ h.resps[r].ends > 0],
              !.effects = Append(@, Wrote(r, frame))]

RECURSIVE WriteAll(_, _, _)
WriteAll(h, r, frames) ==
    IF frames = <<>> THEN h ELSE WriteAll(Write(h, r, Head(frames)), r, Tail(frames))

\* res.end(); ends counts the calls, up to two.
End(h, r) ==
    [h EXCEPT !.resps = [@ EXCEPT ![r].ends = IF @ < 2 THEN @ + 1 ELSE @],
              !.effects = Append(@, Ended(r))]

\* The sink looked up among the open responses when none is bound.
SinkLookupAnyOpen(streams, c) ==
    IF streams[c] # 0 THEN streams[c]
    ELSE IF \E r \in Rids : resps[r].open /\ resps[r].conv = c
    THEN CHOOSE r \in Rids : resps[r].open /\ resps[r].conv = c
    ELSE 0

\* activeStreams.get(conversationId)
SinkLookup(streams, c) == streams[c]

\* The cleanup with activeStreams.delete(conversationId) left out.
CleanupKeepsSink(h, c) == [h EXCEPT !.buffers = [@ EXCEPT ![c] = <<>>]]

\* The cleanup clearing both maps: activeStreams.clear(); outputBuffers.clear()
CleanupAll(h, c) == [h EXCEPT !.streams = [x \in ConvIds |-> 0], !.buffers = [x \in ConvIds |-> <<>>]]

\* activeStreams.delete(conversationId); outputBuffers.delete(conversationId)
Cleanup(h, c) ==
    [h EXCEPT !.streams = [@ EXCEPT ![c] = 0], !.buffers = [@ EXCEPT ![c] = <<>>]]

\* The frames one content block of an assistant record is turned into.
BlockFrames(block) ==
    IF block.type = "text" /\ Truthy(block.text)
    THEN LET parsedJson == ParseBlockText(TrimText(block.text)) IN
         IF /\ parsedJson # <<>>
            /\ Truthy(parsedJson[1].domChanges)
            /\ Truthy(parsedJson[1].response)
            /\ Truthy(parsedJson[1].action)
         THEN <<ToolUseFrame(parsedJson[1]), TextFrame(parsedJson[1].response)>>
         ELSE <<TextFrame(block.text)>>
    ELSE IF block.type = "tool_use" /\ block.input # <<>>
    THEN LET toolInput == block.input[1] IN
         <<ToolUseFrame(toolInput)>> \o
         (IF Truthy(toolInput.response) THEN <<TextFrame(toolInput.response)>> ELSE <<>>)
    ELSE <<>>

RECURSIVE AssistantFrames(_)
AssistantFrames(content) ==
    IF content = <<>> THEN <<>>
    ELSE BlockFrames(Head(content)) \o AssistantFrames(Tail(content))

\* The result branch with res.end() left out.
OnResultNoEnd(h, c, res) == Cleanup(Write(h, res, DoneFrame), c)

\* The result branch: done frame, end, unbind, drop the buffer.
OnResult(h, c, res) == Cleanup(End(Write(h, res, DoneFrame), res), c)

\* The error branch sending the error text as a text frame.
OnErrorAsText(h, c, res, event) ==
    LET data == IF Truthy(event.error) THEN event.error ELSE UnknownError IN
    Cleanup(End(Write(h, res, TextFrame(data)), res), c)

\* The error branch with the two deletes left out.
OnErrorKeepsSink(h, c, res, event) == End(Write(h, res, ErrorFrame(IF Truthy(event.error) THEN event.error ELSE UnknownError)), res)

\* The error branch: error frame, end, unbind, drop the buffer.
OnError(h, c, res, event) ==
    LET data == IF Truthy(event.error) THEN event.error ELSE UnknownError IN
    Cleanup(End(Write(h, res, ErrorFrame(data)), res), c)

\* The catch branch with the fallback text left out.
OnParseErrorNoText(h, c) ==
    LET res == SinkLookup(h.streams, c) IN
    IF res # 0 THEN Cleanup(End(Write(h, res, DoneFrame), res), c) ELSE h

\* The catch branch: JSON.parse threw.
OnParseError(h, c) ==
    LET res == SinkLookup(h.streams, c) IN
    IF res # 0
    THEN Cleanup(End(Write(Write(h, res, TextFrame(FallbackText)), res, DoneFrame), res), c)
    ELSE h

\* The try block taking every assistant record as one with a content list.
OnEventAssistantAlways(h, c, event) ==
    LET res == SinkLookup(h.streams, c) IN
    IF res # 0
    THEN IF event.type = "assistant"
         THEN WriteAll(h, res, AssistantFrames(event.content))
         ELSE IF event.type = "result" THEN OnResult(h, c, res)
         ELSE IF event.type = "error" THEN OnError(h, c, res, event)
         ELSE Write(h, res, event)
    ELSE h

\* The try block, for a line JSON.parse accepts.
OnEvent(h, c, event) ==
    LET res == SinkLookup(h.streams, c) IN
    IF res # 0
    THEN IF event.type = "assistant" /\ event.message
         THEN WriteAll(h, res, AssistantFrames(event.content))
         ELSE IF event.type = "result" THEN OnResult(h, c, res)
         ELSE IF event.type = "error" THEN OnError(h, c, res, event)
         ELSE Write(h, res, event)
    ELSE h

\* One turn of the loop; a line of white space only is skipped.
Translate(h, c, line) ==
    IF Trim(line) = <<>> THEN h
    ELSE LET g == [h EXCEPT !.effects = Append(@, Parsed(line))] IN
         IF IsJson(line) THEN OnEvent(g, c, Event(line)) ELSE OnParseError(g, c)

RECURSIVE ProcessLines(_, _, _)
ProcessLines(h, c, lines) ==
    IF lines = <<>> THEN h
    ELSE ProcessLines(Translate(h, c, Head(lines)), c, Tail(lines))

-----------------------------------------------------------------------------
(* The process supervisor *)

\* The check of the process table left out.
HasNever(table, id) == FALSE

\* claudeProcesses.has(conversationId)
Has(table, id) == table[id] # 0

\* The arguments with --resume and --session-id taken one for the other.
SpawnArgsSwapped(selectedModel, systemPrompt, sessionId, isResume) ==
    [model |-> selectedModel,
     resume |-> IF Truthy(sessionId) /\ ~isResume THEN sessionId ELSE "",
     sessionId |-> IF Truthy(sessionId) /\ isResume THEN sessionId ELSE "",
     systemPrompt |-> systemPrompt]

\* The arguments of spawn('npx', args) that depend on the call: --model,
\* --resume or --session-id, --system-prompt.
SpawnArgs(selectedModel, systemPrompt, sessionId, isResume) ==
    [model |-> selectedModel,
     resume |-> IF Truthy(sessionId) /\ isResume THEN sessionId ELSE "",
     sessionId |-> IF Truthy(sessionId) /\ ~isResume THEN sessionId ELSE "",
     systemPrompt |-> systemPrompt]

\* A child process as spawn returns it: stream is what it will print, pos how
\* much of it the 'data' events have delivered.
NewProcess(id, args, stream) ==
    [running |-> TRUE, conv |-> id, args |-> args, stream |-> stream, pos |-> 0]

\* spawnClaudeForConversation without its early return.
spawnWithoutCheck(table, ps, models, id, systemPrompt, sessionId, isResume, model, stream) ==
    LET selectedModel ==
            IF Truthy(model) THEN model
            ELSE IF Truthy(models[id]) THEN models[id] ELSE "sonnet"
        args == SpawnArgs(selectedModel, systemPrompt, sessionId, isResume)
        pid == FreePid(ps)
    IN  [claudeProcesses |-> [table EXCEPT ![id] = pid],
         procs |-> [ps EXCEPT ![pid] = NewProcess(id, args, stream)],
         handle |-> pid,
         effects |-> <<Spawned(pid, args)>>]

\* spawnClaudeForConversation, as a function of the process table, the
\* processes and the stored models: the table and the processes after the
\* call, the handle it returns, and what it did.
spawnClaudeForConversation(table, ps, models, id, systemPrompt, sessionId, isResume, model, stream) ==
    IF Has(table, id)
    THEN [claudeProcesses |-> table, procs |-> ps, handle |-> table[id],
          effects |-> <<>>]
    ELSE LET selectedModel ==
                 IF Truthy(model) THEN model
                 ELSE IF Truthy(models[id]) THEN models[id] ELSE "sonnet"
             args == SpawnArgs(selectedModel, systemPrompt, sessionId, isResume)
             pid == FreePid(ps)
         IN  [claudeProcesses |-> [table EXCEPT ![id] = pid],
              procs |-> [ps EXCEPT ![pid] = NewProcess(id, args, stream)],
              handle |-> pid,
              effects |-> <<Spawned(pid, args)>>]

\* claudeProcess.stdout.on('data', ...): the next n tokens of the stream of
\* process p arrive as one chunk.
StdoutData(p, n) ==
    /\ procs[p].running
    /\ n \in 1..(Len(procs[p].stream) - procs[p].pos)
    /\ LET c == procs[p].conv
           data == SubSeq(procs[p].stream, procs[p].pos + 1, procs[p].pos + n)
           buffer == (IF outputBuffers[c] = <<>> THEN <<>> ELSE outputBuffers[c][1]) \o data
           lines == Split(buffer)
           h0 == [streams |-> activeStreams,
                  buffers |-> [outputBuffers EXCEPT ![c] = <<Last(lines)>>],
                  resps |-> resps,
                  effects |-> <<>>]
           h == ProcessLines(h0, c, Front(lines))
       IN  /\ activeStreams' = h.streams
           /\ outputBuffers' = h.buffers
           /\ resps' = h.resps
           /\ step' = Step("data", c, p, SinkLookup(activeStreams, c), h.effects)
    /\ procs' = [procs EXCEPT ![p].pos = @ + n]
    /\ UNCHANGED <<claudeProcesses, sessionTracking, conversationMessages,
                   conversationModels, timers>>

\* The exit handler giving the leftover fragment to the translator first.
ProcExitFlushes(p) ==
    /\ procs[p].running
    /\ LET c == procs[p].conv
           res == SinkLookup(activeStreams, c)
           h0 == [streams |-> activeStreams, buffers |-> outputBuffers,
                  resps |-> resps, effects |-> <<>>]
           h1 == IF outputBuffers[c] = <<>> THEN h0
                 ELSE ProcessLines(h0, c, outputBuffers[c])
           last == SinkLookup(h1.streams, c)
           h == IF last # 0 THEN End(h1, last) ELSE h1
       IN  /\ claudeProcesses' = [claudeProcesses EXCEPT ![c] = 0]
           /\ outputBuffers' = [outputBuffers EXCEPT ![c] = <<>>]
           /\ resps' = h.resps
           /\ activeStreams' = [activeStreams EXCEPT ![c] = 0]
           /\ step' = Step("exit", c, p, res, h.effects)
    /\ procs' = [procs EXCEPT ![p] = FreeProc]
    /\ UNCHANGED <<sessionTracking, conversationMessages, conversationModels, timers>>

\* claudeProcess.on('exit', ...)
ProcExit(p) ==
    /\ procs[p].running
    /\ LET c == procs[p].conv
           res == SinkLookup(activeStreams, c)
           h0 == [streams |-> activeStreams, buffers |-> outputBuffers,
                  resps |-> resps, effects |-> <<>>]
           h == IF res # 0 THEN End(h0, res) ELSE h0
       IN  /\ claudeProcesses' = [claudeProcesses EXCEPT ![c] = 0]
           /\ outputBuffers' = [outputBuffers EXCEPT ![c] = <<>>]
           /\ resps' = h.resps
           /\ activeStreams' = [activeStreams EXCEPT ![c] = 0]
           /\ step' = Step("exit", c, p, res, h.effects)
    /\ procs' = [procs EXCEPT ![p] = FreeProc]
    /\ UNCHANGED <<sessionTracking, conversationMessages, conversationModels, timers>>

-----------------------------------------------------------------------------
(* The request handlers *)

\* POST /conversations recording every session as a new one.
PostConversationsNeverResume(session_id, model) ==
    LET conversationId == IF Truthy(session_id) THEN session_id
                          ELSE CHOOSE g \in GeneratedIds : TRUE
        selectedModel == IF Truthy(model) THEN model ELSE "sonnet"
    IN  /\ conversationMessages' = [conversationMessages EXCEPT ![conversationId] = << <<>> >>]
        /\ conversationModels' = [conversationModels EXCEPT ![conversationId] = selectedModel]
        /\ sessionTracking' =
               IF Truthy(session_id)
               THEN [sessionTracking EXCEPT ![session_id] =
                        <<[conversationId |-> conversationId, isResume |-> FALSE]>>]
               ELSE sessionTracking
        /\ step' = Step("create", conversationId, 0, activeStreams[conversationId], <<>>)
        /\ UNCHANGED <<claudeProcesses, activeStreams, outputBuffers, procs, resps,
                       timers>>

\* POST /conversations; session_id "" stands for a request without one.
PostConversations(session_id, model) ==
    LET conversationId == IF Truthy(session_id) THEN session_id
                          ELSE CHOOSE g \in GeneratedIds : TRUE
        selectedModel == IF Truthy(model) THEN model ELSE "sonnet"
    IN  /\ conversationMessages' = [conversationMessages EXCEPT ![conversationId] = << <<>> >>]
        /\ conversationModels' = [conversationModels EXCEPT ![conversationId] = selectedModel]
        /\ sessionTracking' =
               IF Truthy(session_id)
               THEN [sessionTracking EXCEPT ![session_id] =
                        <<[conversationId |-> conversationId,
                           isResume |-> sessionTracking[session_id] # <<>>]>>]
               ELSE sessionTracking
        /\ step' = Step("create", conversationId, 0, activeStreams[conversationId], <<>>)
        /\ UNCHANGED <<claudeProcesses, activeStreams, outputBuffers, procs, resps,
                       timers>>

\* The messages of a conversation: conversationMessages.get(id) || []
Messages(msgs, id) == IF msgs[id] = <<>> THEN <<>> ELSE msgs[id][1]

\* sendUserMessage storing the message before it looks for the process.
sendUserMessageStoresFirst(table, msgs, conversationId, content) ==
    LET claudeProcess == table[conversationId]
        stored == [msgs EXCEPT ![conversationId] =
                      <<Append(Messages(msgs, conversationId),
                               [role |-> "user", content |-> content])>>]
    IN  IF claudeProcess = 0
        THEN [conversationMessages |-> stored, effects |-> <<>>]
        ELSE [conversationMessages |-> stored,
              effects |-> <<StdinWrote(claudeProcess,
                               [type |-> "user", role |-> "user", content |-> content])>>]

\* sendUserMessage for a request without files, as a function of the maps it
\* reads: the message history after the call, and what it did.
sendUserMessage(table, msgs, conversationId, content) ==
    LET claudeProcess == table[conversationId] IN
    IF claudeProcess = 0
    THEN [conversationMessages |-> msgs, effects |-> <<>>]
    ELSE LET userMessage == [type |-> "user", role |-> "user", content |-> content] IN
         [conversationMessages |->
              [msgs EXCEPT ![conversationId] =
                  <<Append(Messages(msgs, conversationId),
                           [role |-> "user", content |-> content])>>],
          effects |-> <<StdinWrote(claudeProcess, userMessage)>>]

\* The session the tracker holds for a conversation id: the for loop of the
\* messages handler.  <<>> when no entry names the conversation.
TrackedSession(id) ==
    LET found == {sid \in SessionIds :
                     /\ sessionTracking[sid] # <<>>
                     /\ sessionTracking[sid][1].conversationId = id}
    IN  IF found = {} THEN <<>>
        ELSE LET sid == CHOOSE x \in found : TRUE IN
             <<[sessionId |-> sid, isResume |-> sessionTracking[sid][1].isResume]>>

\* The timers that hold a message for a conversation.
Pending(id) == Len(SelectSeq(timers, LAMBDA t : t.id = id))

\* POST /conversations/:id/messages; stream is what the process prints if the
\* request spawns one.
PostMessages(id, content, systemPrompt, stream) ==
    /\ Len(Messages(conversationMessages, id)) + Pending(id) < MaxMessages
    /\ IF ~Has(claudeProcesses, id)
       THEN /\ \E p \in Pids : ~procs[p].running
            /\ LET tracked == TrackedSession(id)
                   sessionId == IF tracked = <<>> THEN "" ELSE tracked[1].sessionId
                   isResume == IF tracked = <<>> THEN FALSE ELSE tracked[1].isResume
                   r == spawnClaudeForConversation(claudeProcesses, procs,
                            conversationModels, id, systemPrompt, sessionId,
                            isResume, "", stream)
               IN  /\ claudeProcesses' = r.claudeProcesses
                   /\ procs' = r.procs
                   /\ step' = Step("message", id, 0, activeStreams[id],
                                   Append(r.effects, Answered(200, TRUE)))
            /\ timers' = Append(timers, [id |-> id, content |-> content])
            /\ UNCHANGED conversationMessages
       ELSE /\ LET r == sendUserMessage(claudeProcesses, conversationMessages, id, content)
               IN  /\ conversationMessages' = r.conversationMessages
                   /\ step' = Step("message", id, 0, activeStreams[id],
                                   Append(r.effects, Answered(200, TRUE)))
            /\ UNCHANGED <<claudeProcesses, procs, timers>>
    /\ UNCHANGED <<activeStreams, outputBuffers, sessionTracking, conversationModels,
                   resps>>

\* The setTimeout callback of the messages handler, 1000 ms after the spawn.
TimerFires ==
    /\ timers # <<>>
    /\ LET t == Head(timers)
           r == sendUserMessage(claudeProcesses, conversationMessages, t.id, t.content)
       IN  /\ conversationMessages' = r.conversationMessages
           /\ step' = Step("timer", t.id, 0, activeStreams[t.id], r.effects)
    /\ timers' = Tail(timers)
    /\ UNCHANGED <<claudeProcesses, activeStreams, outputBuffers, sessionTracking,
                   conversationModels, procs, resps>>

\* A sink that is bound is kept: if (!activeStreams.has(id)) set(id, res)
AttachKeepsFirst(streams, id, res) ==
    IF streams[id] # 0 THEN streams ELSE [streams EXCEPT ![id] = res]

\* activeStreams.set(id, res)
Attach(streams, id, res) == [streams EXCEPT ![id] = res]

\* The stream handler sending the new sink a frame for what was printed.
GetStreamReplays(id) ==
    /\ \E r \in Rids : ~resps[r].open
    /\ LET res == FreeRid(resps) IN
       /\ resps' = [r \in Rids |->
                      IF r = res THEN [FreeResp EXCEPT !.open = TRUE, !.conv = id]
                      ELSE IF resps[r].open /\ resps[r].conv = id
                      THEN [resps[r] EXCEPT !.superseded = TRUE]
                      ELSE resps[r]]
       /\ activeStreams' = Attach(activeStreams, id, res)
       /\ step' = Step("stream", id, 0, activeStreams[id],
                       IF outputBuffers[id] = <<>> THEN <<>>
                       ELSE <<Wrote(res, TextFrame("hello"))>>)
    /\ UNCHANGED <<claudeProcesses, outputBuffers, sessionTracking,
                   conversationMessages, conversationModels, procs, timers>>

\* GET /conversations/:id/stream; superseded marks the responses opened
\* earlier on the same conversation.
GetStream(id) ==
    /\ \E r \in Rids : ~resps[r].open
    /\ LET res == FreeRid(resps) IN
       /\ resps' = [r \in Rids |->
                      IF r = res THEN [FreeResp EXCEPT !.open = TRUE, !.conv = id]
                      ELSE IF resps[r].open /\ resps[r].conv = id
                      THEN [resps[r] EXCEPT !.superseded = TRUE]
                      ELSE resps[r]]
       /\ activeStreams' = Attach(activeStreams, id, res)
    /\ step' = Step("stream", id, 0, activeStreams[id], <<>>)
    /\ UNCHANGED <<claudeProcesses, outputBuffers, sessionTracking,
                   conversationMessages, conversationModels, procs, timers>>

\* The close handler deleting the line buffer as well.
ReqCloseDropsBuffer(r) ==
    /\ resps[r].open
    /\ resps' = [resps EXCEPT ![r] = FreeResp]
    /\ activeStreams' = [activeStreams EXCEPT ![resps[r].conv] = 0]
    /\ outputBuffers' = [outputBuffers EXCEPT ![resps[r].conv] = <<>>]
    /\ step' = Step("close", resps[r].conv, 0, activeStreams[resps[r].conv], <<>>)
    /\ UNCHANGED <<claudeProcesses, sessionTracking,
                   conversationMessages, conversationModels, procs, timers>>

\* req.on('close', ...) of the stream request that opened response r: the
\* client went away, or the connection closed after res.end().
ReqClose(r) ==
    /\ resps[r].open
    /\ resps' = [resps EXCEPT ![r] = FreeResp]
    /\ activeStreams' = [activeStreams EXCEPT ![resps[r].conv] = 0]
    /\ step' = Step("close", resps[r].conv, 0, activeStreams[resps[r].conv], <<>>)
    /\ UNCHANGED <<claudeProcesses, outputBuffers, sessionTracking,
                   conversationMessages, conversationModels, procs, timers>>

-----------------------------------------------------------------------------
(* The bridge serving one conversation: message requests, stream requests  *)
(* and the events of its process.                                          *)

Init ==
    /\ claudeProcesses = [c \in ConvIds |-> 0]
    /\ activeStreams = [c \in ConvIds |-> 0]
    /\ outputBuffers = [c \in ConvIds |-> <<>>]
    /\ sessionTracking = [s \in SessionIds |-> <<>>]
    /\ conversationMessages = [c \in ConvIds |-> <<>>]
    /\ conversationModels = [c \in ConvIds |-> ""]
    /\ procs = [p \in Pids |-> FreeProc]
    /\ resps = [r \in Rids |-> FreeResp]
    /\ timers = <<>>
    /\ step = Step("init", "", 0, 0, <<>>)

Next ==
    \/ \E id \in SessionIds, stream \in Streams : PostMessages(id, "hi", "", stream)
    \/ TimerFires
    \/ \E id \in SessionIds : GetStream(id)
    \/ \E r \in Rids : ReqClose(r)
    \/ \E p \in Pids, n \in 1..12 : StdoutData(p, n)
    \/ \E p \in Pids : ProcExit(p)

Spec == Init /\ [][Next]_vars

\* The bridge serving a conversation with a session id and one with a
\* generated id: create requests, message requests, and the exits of their
\* processes, which print nothing.
NextSessions ==
    \/ \E session_id \in SessionIds \cup {""} : PostConversations(session_id, "")
    \/ \E id \in ConvIds : PostMessages(id, "hi", "", <<>>)
    \/ TimerFires
    \/ \E p \in Pids : ProcExit(p)

SpecSessions == Init /\ [][NextSessions]_vars

FairSessions == SpecSessions /\ WF_vars(TimerFires)

\* The 'error' event of a child process that failed to spawn (ENOENT, EACCES,
\* EAGAIN), emitted on the tick after the spawn call, before any other
\* handler runs.  spawnClaudeForConversation sets no listener for it, so
\* emit throws, and the exception, which nothing catches, ends the bridge:
\* the maps stay as the exception found them and no handler runs again.
ProcError(p) ==
    /\ step.action = "message"
    /\ Head(step.effects) = Spawned(p, procs[p].args)
    /\ procs[p].running
    /\ step' = Step("crash", procs[p].conv, p, activeStreams[procs[p].conv], <<>>)
    /\ procs' = [procs EXCEPT ![p] = FreeProc]
    /\ UNCHANGED <<claudeProcesses, activeStreams, outputBuffers, sessionTracking,
                   conversationMessages, conversationModels, resps, timers>>

\* The bridge has ended on an exception.
Crashed == step.action = "crash"

\* The bridge serving one conversation, with spawns that may fail.
NextSpawnError ==
    \/ ~Crashed /\ Next
    \/ \E p \in Pids : ProcError(p)

SpecSpawnError == Init /\ [][NextSpawnError]_vars

\* server.close(...)
ServerClosed == [op |-> "close"]

\* The handlers below test `claudeProcess`, which is not the process table
\* and which this program (from line 270 on) declares nowhere outside
\* spawnClaudeForConversation and sendUserMessage: the read throws a
\* ReferenceError.  Read as the variable of the earlier program in the same
\* file (line 16), which nothing here ever sets, it is null.  thrown says
\* which of the two the read does.

\* POST /conversations/:id/approve and /deny: the throw is answered by
\* Express with status 500, the null with status 400; the write to the
\* process input is never reached.
PostControl(id, action, thrown) ==
    /\ step.action # "shutdown"
    /\ step' = Step(action, id, 0, activeStreams[id],
                    <<Answered(IF thrown THEN 500 ELSE 400, FALSE)>>)
    /\ UNCHANGED <<claudeProcesses, activeStreams, outputBuffers, sessionTracking,
                   conversationMessages, conversationModels, procs, resps, timers>>

\* The SIGTERM and SIGINT handler: the throw ends the bridge before
\* server.close; with null the kill is skipped and server.close is called.
\* No handler is taken to run after it.
Shutdown(thrown) ==
    /\ step.action # "shutdown"
    /\ step' = Step("shutdown", "", 0, 0, IF thrown THEN <<>> ELSE <<ServerClosed>>)
    /\ UNCHANGED <<claudeProcesses, activeStreams, outputBuffers, sessionTracking,
                   conversationMessages, conversationModels, procs, resps, timers>>

\* The bridge serving one conversation, with approve and deny requests and
\* the shutdown signal.
NextControl ==
    \/ /\ step.action # "shutdown"
       /\ \/ \E id \in SessionIds : PostMessages(id, "hi", "", OneRecord("{o"))
          \/ TimerFires
          \/ \E p \in Pids, n \in 1..3 : StdoutData(p, n)
          \/ \E p \in Pids : ProcExit(p)
    \/ \E id \in SessionIds, action \in {"approve", "deny"}, thrown \in BOOLEAN :
           PostControl(id, action, thrown)
    \/ \E thrown \in BOOLEAN : Shutdown(thrown)

SpecControl == Init /\ [][NextControl]_vars

\* What a 'data' event of process p does to the process: the step of
\* StdoutData(p, n) for some n, seen from procs alone.
DataEvent(p) ==
    /\ procs[p].running
    /\ \E n \in 1..(Len(procs[p].stream) - procs[p].pos) :
           procs' = [procs EXCEPT ![p].pos = @ + n]

\* The event loop runs the handler of an event that is due: the pipe delivers
\* what a process has printed, and a timer that is set fires.  Nothing makes
\* a client send a request or close a connection, or a process exit.
Fairness ==
    /\ WF_vars(TimerFires)
    /\ \A p \in Pids : WF_procs(DataEvent(p))

FairSpec == Spec /\ Fairness

\* The bridge serving one conversation whose process prints a single record.
NextRecords ==
    \/ \E id \in SessionIds, stream \in RecordStreams : PostMessages(id, "hi", "", stream)
    \/ TimerFires
    \/ \E id \in SessionIds : GetStream(id)
    \/ \E r \in Rids : ReqClose(r)
    \/ \E p \in Pids, n \in 1..3 : StdoutData(p, n)
    \/ \E p \in Pids : ProcExit(p)

SpecRecords == Init /\ [][NextRecords]_vars

\* The bridge serving two conversations at once, each with one process that
\* prints a malformed line and a result, and one stream request at a time.
NextTwo ==
    \/ \E id \in ConvIds :
           /\ conversationMessages[id] = <<>> /\ Pending(id) = 0
           /\ PostMessages(id, "hi", "", JunkThenResult)
    \/ TimerFires
    \/ \E id \in ConvIds :
           /\ \A r \in Rids : resps[r].open => resps[r].conv # id
           /\ GetStream(id)
    \/ \E r \in Rids : ReqClose(r)
    \/ \E p \in Pids, n \in 1..2 : StdoutData(p, n)
    \/ \E p \in Pids : ProcExit(p)

SpecTwo == Init /\ [][NextTwo]_vars

-----------------------------------------------------------------------------
(* What the claims speak of *)

Effects == step.effects

\* The lines of a list that are not white space only.
RECURSIVE NonBlank(_)
NonBlank(lines) ==
    IF lines = <<>> THEN <<>>
    ELSE (IF Trim(Head(lines)) = <<>> THEN <<>> ELSE <<Head(lines)>>)
         \o NonBlank(Tail(lines))

\* The terminated lines of a text, in order.
CompleteLines(text) == NonBlank(Front(Split(text)))

\* The lines a handler gave to JSON.parse, in order.
RECURSIVE ParsedLines(_)
ParsedLines(effects) ==
    IF effects = <<>> THEN <<>>
    ELSE (IF Head(effects).op = "parse" THEN <<Head(effects).line>> ELSE <<>>)
         \o ParsedLines(Tail(effects))

\* What process p has printed that the 'data' events have delivered.
Delivered(ps, p) == SubSeq(ps[p].stream, 1, ps[p].pos)

\* The child processes of a conversation that have not exited.
Running(c) == {p \in Pids : procs[p].running /\ procs[p].conv = c}

-----------------------------------------------------------------------------
(* C1: every 'data' handler gives the translator exactly the lines whose   *)
(* terminator arrived with its chunk, whole and in stream order, however   *)
(* the stream is cut into chunks (lines of white space aside).  Stated as  *)
(* the claim has it; the code does not keep it.                            *)
C1_LinesOfTheStream ==
    [][step'.action = "data" =>
         LET p == step'.proc
             before == CompleteLines(Delivered(procs, p))
             after == CompleteLines(Delivered(procs', p))
         IN  ParsedLines(step'.effects) = SubSeq(after, Len(before) + 1, Len(after))]_vars

(* C2: whenever a handler ends a response, the last frame written to that  *)
(* response is a done or an error frame.  Stated as the claim has it; the  *)
(* exit handler does not keep it.                                          *)
C2_TerminalFrameBeforeEnd ==
    \A i \in DOMAIN Effects :
        Effects[i].op = "end" => resps[Effects[i].res].terminated

(* C3: spawnClaudeForConversation for an id that has a registered process  *)
(* returns that process, spawns nothing, leaves the process table and the  *)
(* processes as they are, whatever systemPrompt, sessionId, isResume and   *)
(* model it is called with.                                                *)
C3_IdempotentSpawn ==
    \A id \in ConvIds :
        Has(claudeProcesses, id) =>
            \A sp \in Prompts, sid \in SessionIds \cup {""}, isResume \in BOOLEAN,
               model \in Models, stream \in Streams :
                LET r == spawnClaudeForConversation(claudeProcesses, procs,
                             conversationModels, id, sp, sid, isResume, model, stream)
                IN  /\ r.handle = claudeProcesses[id]
                    /\ r.claudeProcesses = claudeProcesses
                    /\ r.procs = procs
                    /\ r.effects = <<>>

\* A process spawned with no system prompt, no session and the default model
\* is registered, and the call names a prompt, a session to resume and a model.
C3_Witness ==
    /\ Has(claudeProcesses, "s1")
    /\ procs[claudeProcesses["s1"]].args =
           [model |-> "sonnet", resume |-> "", sessionId |-> "", systemPrompt |-> ""]
    /\ spawnClaudeForConversation(claudeProcesses, procs, conversationModels, "s1",
           "be brief", "s1", TRUE, "opus", Unterminated).handle = claudeProcesses["s1"]

(* C4: in every reachable state each conversation has at most one spawned  *)
(* process that has not exited, and it is the one the process table names. *)
C4_OneLiveProcess ==
    \A c \in ConvIds :
        /\ Cardinality(Running(c)) <= 1
        /\ \A p \in Running(c) : claudeProcesses[c] = p

\* A message request has just spawned a process for a conversation whose
\* earlier process took a message and exited.
C4_Witness ==
    /\ step.action = "message"
    /\ \E i \in DOMAIN Effects : Effects[i].op = "spawn"
    /\ Len(Messages(conversationMessages, step.conv)) >= 1
    /\ Cardinality(Running(step.conv)) = 1

(* C5: a response that a later stream request of the same conversation has *)
(* superseded is not the bound sink, and no handler writes a frame to it.  *)
C5_SupersededGetsNothing ==
    /\ \A r \in Rids :
           resps[r].open /\ resps[r].superseded => activeStreams[resps[r].conv] # r
    /\ \A i \in DOMAIN Effects :
           Effects[i].op = "write" => ~resps[Effects[i].res].superseded

\* A frame was written to the bound sink while a superseded response of the
\* same conversation is still open and not ended.
C5_Witness ==
    /\ \E i \in DOMAIN Effects : Effects[i].op = "write"
    /\ \E r \in Rids :
           /\ resps[r].open /\ resps[r].superseded /\ resps[r].ends = 0
           /\ resps[r].conv = step.conv

-----------------------------------------------------------------------------
(* The records and lines the claims C6 to C10 speak of *)

ResultLines == { <<"{r", "}">>, <<"{p", "}">> }
ErrorLines == { <<"{e", "}">>, <<"{u", "}">> }
MalformedLines == { <<"x">>, <<"}">>, <<"{r">> }

\* The text an error frame carries for an error line.
ErrorText(line) == IF line = <<"{e", "}">> THEN "boom" ELSE "Unknown error"

IsParse(i, lines) == Effects[i].op = "parse" /\ Effects[i].line \in lines
IsWrite(e) == e.op = "write"
TerminalWrite(e) == e.op = "write" /\ e.frame.type \in {"done", "error"}

\* The sink bound to the conversation as the handler reached its i-th effect:
\* the one bound as it started, until the handler ends it.
SinkAt(i) ==
    IF \E j \in 1..(i - 1) : Effects[j].op = "end" THEN 0 ELSE step.sink

\* The effects i+1 .. i+Len(following) are `following`, and the next one, if
\* any, is the next line given to JSON.parse.
FollowedBy(i, following) ==
    /\ i + Len(following) <= Len(Effects)
    /\ \A k \in DOMAIN following : Effects[i + k] = following[k]
    /\ i + Len(following) < Len(Effects) => Effects[i + Len(following) + 1].op = "parse"

\* The sink is unbound and the line buffer has no entry.
CleanedUp(c) == activeStreams[c] = 0 /\ outputBuffers[c] = <<>>

-----------------------------------------------------------------------------
(* C6: a 'data' handler that starts with no sink bound to its conversation *)
(* writes no frame and ends no response, whatever lines it parses, and     *)
(* changes nothing of the bridge but that conversation's line buffer.      *)
C6_NoSinkNoEffect ==
    [][(step'.action = "data" /\ activeStreams[step'.conv] = 0) =>
         /\ \A i \in DOMAIN step'.effects : step'.effects[i].op = "parse"
         /\ UNCHANGED <<claudeProcesses, activeStreams, sessionTracking,
                        conversationMessages, conversationModels, resps, timers>>
         /\ \A c \in ConvIds \ {step'.conv} : outputBuffers'[c] = outputBuffers[c]]_vars

\* With no sink bound, a handler has parsed a malformed line and a result
\* record, while a response of the conversation is still open.
C6_Witness ==
    /\ step.action = "data" /\ step.sink = 0
    /\ ParsedLines(Effects) = << <<"x">>, <<"{r", "}">> >>
    /\ \E r \in Rids : resps[r].open /\ resps[r].conv = step.conv

(* C7: a 'data' handler that writes a done or an error frame leaves the    *)
(* conversation with no sink bound and no line buffer entry and writes no  *)
(* frame after it; and a handler that starts with no sink bound writes no  *)
(* frame at all.                                                           *)
C7_TerminalCleanup ==
    step.action = "data" =>
        /\ (\E i \in DOMAIN Effects : TerminalWrite(Effects[i])) => CleanedUp(step.conv)
        /\ \A i, j \in DOMAIN Effects :
               (i < j /\ TerminalWrite(Effects[i])) => ~IsWrite(Effects[j])
        /\ step.sink = 0 => \A i \in DOMAIN Effects : ~IsWrite(Effects[i])

\* A handler wrote a terminal frame and parsed a further record after it.
C7_Witness ==
    /\ step.action = "data"
    /\ \E i, j \in DOMAIN Effects :
           i < j /\ TerminalWrite(Effects[i]) /\ Effects[j].op = "parse"
    /\ CleanedUp(step.conv)

(* C8: for a result record, with or without a result payload, parsed while *)
(* a sink is bound, the handler writes exactly one done frame to the sink, *)
(* ends it once, unbinds it and deletes the line buffer entry.             *)
C8_ResultEmitsDone ==
    step.action = "data" =>
        \A i \in DOMAIN Effects :
            (IsParse(i, ResultLines) /\ SinkAt(i) # 0) =>
                /\ FollowedBy(i, <<Wrote(SinkAt(i), DoneFrame), Ended(SinkAt(i))>>)
                /\ resps[SinkAt(i)].ends = 1
                /\ CleanedUp(step.conv)

\* A result record with a payload was parsed with a sink bound.
C8_Witness ==
    /\ step.action = "data"
    /\ \E i \in DOMAIN Effects :
           /\ IsParse(i, {<<"{p", "}">>}) /\ SinkAt(i) # 0
           /\ FollowedBy(i, <<Wrote(SinkAt(i), DoneFrame), Ended(SinkAt(i))>>)

(* C9 as the claim has it: for an error record parsed while a sink is      *)
(* bound, the handler writes an error frame carrying record.error (or the  *)
(* generic text), then a done frame, then ends and unbinds the sink and    *)
(* deletes the line buffer entry.                                          *)
C9_ErrorThenDone ==
    step.action = "data" =>
        \A i \in DOMAIN Effects :
            (IsParse(i, ErrorLines) /\ SinkAt(i) # 0) =>
                /\ FollowedBy(i, <<Wrote(SinkAt(i), ErrorFrame(ErrorText(Effects[i].line))),
                                   Wrote(SinkAt(i), DoneFrame),
                                   Ended(SinkAt(i))>>)
                /\ CleanedUp(step.conv)

(* C9, amended: for an error record parsed while a sink is bound, the      *)
(* handler writes one error frame carrying record.error (or the generic    *)
(* text) and no done frame, ends the sink once, unbinds it and deletes the *)
(* line buffer entry.                                                      *)
C9_ErrorEmitsError ==
    step.action = "data" =>
        \A i \in DOMAIN Effects :
            (IsParse(i, ErrorLines) /\ SinkAt(i) # 0) =>
                /\ FollowedBy(i, <<Wrote(SinkAt(i), ErrorFrame(ErrorText(Effects[i].line))),
                                   Ended(SinkAt(i))>>)
                /\ resps[SinkAt(i)].ends = 1
                /\ CleanedUp(step.conv)

\* An error record without an error field was parsed with a sink bound.
C9_Witness ==
    /\ step.action = "data"
    /\ \E i \in DOMAIN Effects :
           /\ IsParse(i, {<<"{u", "}">>}) /\ SinkAt(i) # 0
           /\ FollowedBy(i, <<Wrote(SinkAt(i), ErrorFrame("Unknown error")),
                              Ended(SinkAt(i))>>)

(* C10: for a line that is not JSON, parsed while a sink is bound, the     *)
(* handler writes the fallback text frame, then a done frame, ends and     *)
(* unbinds the sink and deletes the line buffer entry, and the process     *)
(* stays registered; a message request for an id with a registered process *)
(* writes its message to that process and spawns nothing.                  *)
C10_MalformedLine ==
    [][/\ step'.action = "data" =>
            \A i \in DOMAIN step'.effects :
                (IsParse(i, MalformedLines)' /\ SinkAt(i)' # 0) =>
                    /\ FollowedBy(i, <<Wrote(SinkAt(i), TextFrame(
                         "Response generated but encountered parsing error. Check server logs for details.")),
                                       Wrote(SinkAt(i), DoneFrame),
                                       Ended(SinkAt(i))>>)'
                    /\ CleanedUp(step.conv)'
                    /\ UNCHANGED claudeProcesses
                    /\ claudeProcesses'[step'.conv] = step'.proc
       /\ (step'.action = "message" /\ Has(claudeProcesses, step'.conv)) =>
            /\ \E content \in Contents :
                   step'.effects = <<StdinWrote(claudeProcesses[step'.conv],
                                        [type |-> "user", role |-> "user",
                                         content |-> content]),
                                     Answered(200, TRUE)>>
            /\ UNCHANGED <<claudeProcesses, procs>>]_vars

\* A message was written to the process that printed a malformed line, the
\* only line it has printed, after that line ended a response.
C10_Witness ==
    /\ step.action = "message"
    /\ \E p \in Pids :
           /\ claudeProcesses[step.conv] = p
           /\ Effects = <<StdinWrote(p, [type |-> "user", role |-> "user",
                                         content |-> "hi"]),
                          Answered(200, TRUE)>>
           /\ procs[p].stream = JunkThenResult /\ procs[p].pos = 2
    /\ \E r \in Rids : resps[r].open /\ resps[r].ends = 1 /\ resps[r].terminated

-----------------------------------------------------------------------------
(* The records the claims C11 and C12 speak of *)

TextBlockLines ==
    { <<"{a", "}">>, <<"{j", "}">>, <<"{w", "}">>, <<"{f", "}">>, <<"{k", "}">>,
      <<"{b", "}">> }

\* The frames the claim C11 gives to the text block of each assistant
\* record: for a text that is the JSON text of an object that has domChanges,
\* response and action, a tool_use frame with the object and a text frame
\* with its response; for any other text, one text frame with the text.
ClaimedFrames(line) ==
    CASE line = <<"{a", "}">> -> <<TextFrame("hello")>>
      [] line = <<"{j", "}">> -> <<ToolUseFrame(SchemaObject), TextFrame("ok")>>
      [] line = <<"{w", "}">> ->
             <<ToolUseFrame(SchemaObject), TextFrame("ok")>>
      [] line = <<"{f", "}">> ->
             <<ToolUseFrame([domChanges |-> "[]", response |-> "", action |-> "none"]),
               TextFrame("")>>
      [] line = <<"{k", "}">> -> <<TextFrame("{domChanges,response:ok}")>>
      [] line = <<"{b", "}">> -> <<TextFrame("")>>

\* The writes of a list of frames to response r.
Writes(r, frames) == [k \in 1..Len(frames) |-> Wrote(r, frames[k])]

(* C11 as the claim has it: for the text block of an assistant record      *)
(* parsed while a sink is bound, the handler writes a tool_use frame with   *)
(* the parsed object and then a text frame with its response if the text   *)
(* is JSON with the three required fields present, and otherwise exactly   *)
(* one text frame with the raw text.  The code does not keep it.           *)
C11_TextBlockFrames ==
    step.action = "data" =>
        \A i \in DOMAIN Effects :
            (IsParse(i, TextBlockLines) /\ SinkAt(i) # 0) =>
                FollowedBy(i, Writes(SinkAt(i), ClaimedFrames(Effects[i].line)))

\* The records that are passed through, as JSON.parse returns them: a system
\* record, and an assistant record that has no message.content.
PassThroughLines == { <<"{o", "}">>, <<"{m", "}">> }
PassedThrough(line) ==
    [type |-> IF line = <<"{o", "}">> THEN "system" ELSE "assistant",
     result |-> "", error |-> "", message |-> FALSE, content |-> <<>>]

(* C12: for a record that is neither an assistant record with content, nor *)
(* a result record, nor an error record, parsed while a sink is bound, the *)
(* handler writes exactly one frame, the record itself, and leaves the     *)
(* sink open, not ended and bound.                                         *)
C12_PassThrough ==
    step.action = "data" =>
        \A i \in DOMAIN Effects :
            (IsParse(i, PassThroughLines) /\ SinkAt(i) # 0) =>
                /\ FollowedBy(i, <<Wrote(SinkAt(i), PassedThrough(Effects[i].line))>>)
                /\ activeStreams[step.conv] = SinkAt(i)
                /\ resps[SinkAt(i)].open /\ resps[SinkAt(i)].ends = 0

\* An assistant record without message.content was passed through.
C12_Witness ==
    /\ step.action = "data" /\ step.sink # 0
    /\ Effects = <<Parsed(<<"{m", "}">>), Wrote(step.sink, PassedThrough(<<"{m", "}">>))>>
    /\ activeStreams[step.conv] = step.sink

(* C13 as the claim has it: once a line of a process's output has failed   *)
(* to parse, every 'data' handler still gives the translator exactly the   *)
(* lines that follow it, whole and in stream order, whether they came in   *)
(* the chunk of the failed line or in later chunks.  The code does not     *)
(* keep it.                                                                *)
C13_LinesAfterParseError ==
    [][step'.action = "data" =>
         LET p == step'.proc
             before == CompleteLines(Delivered(procs, p))
             after == CompleteLines(Delivered(procs', p))
         IN  (\E k \in DOMAIN after : ~IsJson(after[k])) =>
                 ParsedLines(step'.effects) = SubSeq(after, Len(before) + 1, Len(after))]_vars

\* The buffer stored for a conversation, the empty text when there is no entry.
Buffer(buffers, c) == IF buffers[c] = <<>> THEN <<>> ELSE buffers[c][1]

\* The chunk a 'data' step of process p delivered.
Chunk(p) == SubSeq(procs[p].stream, procs[p].pos + 1, procs'[p].pos)

HasTerminator(text) == \E k \in DOMAIN text : text[k] = "\n"

(* C14: a 'data' handler whose chunk holds no line terminator gives the    *)
(* translator no line and stores the buffer it found followed by the       *)
(* chunk; so while a process has printed no terminator, the buffer is all  *)
(* it has printed, in order.                                               *)
C14_BufferAccumulates ==
    [][(step'.action = "data" /\ ~HasTerminator(Chunk(step'.proc))) =>
         LET p == step'.proc
             c == step'.conv
         IN  /\ step'.effects = <<>>
             /\ outputBuffers'[c] = <<Buffer(outputBuffers, c) \o Chunk(p)>>
             /\ ~HasTerminator(Delivered(procs', p)) =>
                    outputBuffers'[c] = <<Delivered(procs', p)>>]_vars

\* The first two tokens of a process's output, which hold no terminator, have
\* arrived; no line was parsed and the buffer holds both.
C14_Witness ==
    /\ step.action = "data" /\ Effects = <<>>
    /\ procs[step.proc].stream = Unterminated /\ procs[step.proc].pos = 2
    /\ outputBuffers[step.conv] = << <<"{u", "}">> >>

(* C15: in every reachable state a stored buffer holds no line terminator, *)
(* and it is the end of what the conversation's process has printed so     *)
(* far.                                                                    *)
C15_BufferIsFragment ==
    \A c \in ConvIds :
        outputBuffers[c] # <<>> =>
            LET buffer == outputBuffers[c][1] IN
            /\ ~HasTerminator(buffer)
            /\ \A p \in Running(c) :
                   /\ Len(buffer) <= procs[p].pos
                   /\ buffer = SubSeq(procs[p].stream, procs[p].pos - Len(buffer) + 1,
                                      procs[p].pos)

\* A handler gave lines to the translator and stored the fragment after them.
C15_Witness ==
    /\ step.action = "data"
    /\ \E i \in DOMAIN Effects : Effects[i].op = "parse"
    /\ outputBuffers[step.conv] = << <<"{r">> >>

(* C16: the exit handler of a conversation's process removes the           *)
(* conversation from the process table, deletes its buffer entry and gives *)
(* no line to the translator, whatever the buffer held, and ends once and  *)
(* unbinds the sink bound as it started; with no sink bound it touches no  *)
(* response.                                                               *)
C16_ExitCleanup ==
    [][step'.action = "exit" =>
         LET c == step'.conv
             r == activeStreams[c]
         IN  /\ claudeProcesses'[c] = 0
             /\ outputBuffers'[c] = <<>>
             /\ activeStreams'[c] = 0
             /\ step'.effects = IF r # 0 THEN <<Ended(r)>> ELSE <<>>
             /\ resps' = IF r # 0 THEN [resps EXCEPT ![r].ends = resps[r].ends + 1]
                         ELSE resps]_vars

\* A process exited with a sink bound that had received a frame which is not
\* a terminal one: the sink was ended and unbound, the table entry removed.
C16_Witness ==
    /\ step.action = "exit" /\ step.sink # 0
    /\ Effects = <<Ended(step.sink)>>
    /\ resps[step.sink].ends = 1 /\ ~resps[step.sink].terminated
    /\ claudeProcesses[step.conv] = 0 /\ CleanedUp(step.conv)

(* C17 as the claim has it: once a conversation's process has exited,      *)
(* every response of that conversation that is open and not ended is       *)
(* eventually ended by the bridge, unless its client disconnects first.    *)
(* The code does not keep it.                                              *)
C17_NoClientLeftWaiting ==
    \A r \in Rids :
        [](( /\ step.action = "exit"
             /\ resps[r].open /\ resps[r].conv = step.conv /\ resps[r].ends = 0 )
           => <>(~resps[r].open \/ resps[r].ends > 0))

(* C18 as the claim has it: after the exit handler of a conversation's     *)
(* process has run, with no message of the conversation waiting in a       *)
(* timer, the process table, the buffer map, the sink map, the message     *)
(* history and the model selection hold no entry for it.  The code does    *)
(* not keep it.                                                            *)
C18_StateReclaimed ==
    (step.action = "exit" /\ Pending(step.conv) = 0) =>
        /\ claudeProcesses[step.conv] = 0
        /\ outputBuffers[step.conv] = <<>>
        /\ activeStreams[step.conv] = 0
        /\ conversationMessages[step.conv] = <<>>
        /\ conversationModels[step.conv] = ""

(* C19 as the claim has it: when the child of a conversation reports a     *)
(* spawn error, the conversation has no entry in the process table and no  *)
(* buffer entry afterwards, no sink stays bound to it and the sink that    *)
(* was bound is ended.  The code does not keep it.                         *)
C19_SpawnErrorCleanup ==
    step.action = "crash" =>
        /\ claudeProcesses[step.conv] = 0
        /\ outputBuffers[step.conv] = <<>>
        /\ activeStreams[step.conv] = 0
        /\ step.sink # 0 => resps[step.sink].ends > 0

(* C20: when the request of the bound sink closes, the sink binding is     *)
(* removed and the process table, the processes with their input, the line *)
(* buffers, the message history and the timers are left as they are; and a *)
(* 'data' handler that finds no sink bound writes no frame.                *)
C20_DetachKeepsProcess ==
    [][/\ ( /\ step'.action = "close"
            /\ \E r \in Rids : /\ resps[r].open /\ ~resps'[r].open
                               /\ activeStreams[step'.conv] = r )
          => /\ activeStreams'[step'.conv] = 0
             /\ UNCHANGED <<claudeProcesses, procs, outputBuffers,
                            conversationMessages, timers>>
       /\ (step'.action = "data" /\ activeStreams[step'.conv] = 0)
          => /\ \A i \in DOMAIN step'.effects : step'.effects[i].op = "parse"
             /\ UNCHANGED resps]_vars

\* The request of the bound sink closed while the conversation's process was
\* running with a fragment in its buffer; the process is still registered.
C20_Witness ==
    /\ step.action = "close" /\ step.sink # 0 /\ ~resps[step.sink].open
    /\ activeStreams[step.conv] = 0
    /\ Has(claudeProcesses, step.conv)
    /\ procs[claudeProcesses[step.conv]].running
    /\ Buffer(outputBuffers, step.conv) # <<>>

-----------------------------------------------------------------------------
(* C21: a stream request writes nothing to the sink it binds, which starts *)
(* with no frame; and every frame a handler writes goes to the sink that   *)
(* was bound as the handler started and follows, in that handler, the      *)
(* parse of the record it is for.  So a sink gets frames only for records  *)
(* processed after it attached.                                            *)
C21_NoReplay ==
    /\ step.action = "stream" =>
           /\ Effects = <<>>
           /\ activeStreams[step.conv] # 0
           /\ resps[activeStreams[step.conv]] =
                  [open |-> TRUE, conv |-> step.conv, terminated |-> FALSE,
                   ends |-> 0, late |-> FALSE, superseded |-> FALSE]
    /\ \A i \in DOMAIN Effects :
           Effects[i].op = "write" =>
               /\ step.action = "data"
               /\ step.sink # 0 /\ Effects[i].res = step.sink
               /\ \E j \in 1..(i - 1) : Effects[j].op = "parse"

\* A sink attached to a conversation with none bound, after its process had
\* printed an assistant record and while the result record is still to come.
C21_Witness ==
    /\ step.action = "stream" /\ step.sink = 0
    /\ activeStreams[step.conv] # 0
    /\ \E p \in Running(step.conv) :
           procs[p].stream = TextThenResult /\ procs[p].pos = 3

-----------------------------------------------------------------------------
(* C22: a create request with a session id records isResume = FALSE for it *)
(* if the tracker has no entry for the id, that is if no earlier request   *)
(* carried it, and TRUE otherwise; no handler removes an entry, and only a *)
(* create request with a session id changes the tracker.                   *)
C22_FirstNewThenResume ==
    [][/\ (step'.action = "create" /\ step'.conv \in SessionIds) =>
              sessionTracking' = [sessionTracking EXCEPT ![step'.conv] =
                  <<[conversationId |-> step'.conv,
                     isResume |-> sessionTracking[step'.conv] # <<>>]>>]
       /\ ~(step'.action = "create" /\ step'.conv \in SessionIds) =>
              UNCHANGED sessionTracking
       /\ \A sid \in SessionIds :
              sessionTracking[sid] # <<>> => sessionTracking'[sid] # <<>>]_vars

\* A second create request with the same session id recorded a resume.
C22_Witness ==
    /\ step.action = "create" /\ step.conv = "s1"
    /\ sessionTracking["s1"] = <<[conversationId |-> "s1", isResume |-> TRUE]>>

\* The spawn a handler made, <<>> if it made none.
SpawnOf(effects) == SelectSeq(effects, LAMBDA e : e.op = "spawn")

\* The session ids whose tracker record names conversation c.
SessionsOf(tracking, c) ==
    {sid \in SessionIds : tracking[sid] # <<>> /\ tracking[sid][1].conversationId = c}

(* C23: the arguments of every spawn hold --resume <sessionId> exactly     *)
(* when the tracker record that names the conversation has isResume =      *)
(* TRUE, --session-id <sessionId> exactly when it has isResume = FALSE,    *)
(* and neither when no record names the conversation; and the spawning     *)
(* handler leaves the tracker as it is.                                    *)
C23_SpawnMode ==
    [][SpawnOf(step'.effects) # <<>> =>
         LET args == SpawnOf(step'.effects)[1].args
             sids == SessionsOf(sessionTracking, step'.conv)
         IN  /\ sids = {} => args.resume = "" /\ args.sessionId = ""
             /\ \A sid \in sids :
                    IF sessionTracking[sid][1].isResume
                    THEN args.resume = sid /\ args.sessionId = ""
                    ELSE args.resume = "" /\ args.sessionId = sid
             /\ UNCHANGED sessionTracking]_vars

\* A process was spawned to resume session s1.
C23_Witness ==
    /\ SpawnOf(Effects) # <<>>
    /\ SpawnOf(Effects)[1].args.resume = "s1"
    /\ sessionTracking["s1"][1].isResume

-----------------------------------------------------------------------------
(* C24: a message request answers {success: true}, once and whatever it    *)
(* did; and a write attempted when the process table has no entry for the  *)
(* id, which is the timer of a request whose process exited during the     *)
(* delay, writes to no process input and appends nothing to the message    *)
(* history.                                                                *)
C24_SkippedWrite ==
    [][/\ step'.action = "message" =>
              /\ step'.effects[Len(step'.effects)] = Answered(200, TRUE)
              /\ Len(SelectSeq(step'.effects, LAMBDA e : e.op = "answer")) = 1
       /\ (step'.action \in {"message", "timer"} /\ claudeProcesses'[step'.conv] = 0) =>
              /\ SelectSeq(step'.effects, LAMBDA e : e.op = "stdin") = <<>>
              /\ UNCHANGED <<conversationMessages, procs>>]_vars

\* The timer of a message request fired after the process had exited: nothing
\* was written and the history has no entry.
C24_Witness ==
    /\ step.action = "timer" /\ Effects = <<>>
    /\ claudeProcesses[step.conv] = 0
    /\ conversationMessages[step.conv] = <<>>

-----------------------------------------------------------------------------
(* C25 as the claim has it: an approve or deny request for an id with no   *)
(* registered process answers with a status from 400 to 499 and writes     *)
(* nothing; for an id with a registered process it writes exactly one      *)
(* control record to the input of that process.  The code does not keep    *)
(* it.                                                                     *)
C25_ControlRecord ==
    step.action \in {"approve", "deny"} =>
        LET written == SelectSeq(Effects, LAMBDA e : e.op = "stdin")
            answers == SelectSeq(Effects, LAMBDA e : e.op = "answer")
        IN  IF claudeProcesses[step.conv] = 0
            THEN /\ written = <<>>
                 /\ Len(answers) = 1 /\ answers[1].status \in 400..499
            ELSE /\ Len(written) = 1
                 /\ written[1].proc = claudeProcesses[step.conv]
                 /\ written[1].message.type = "control"

\* child.kill() of process p
Killed(p) == [op |-> "kill", proc |-> p]

(* C26 as the claim has it: the shutdown handler sends a termination       *)
(* signal to every process the process table holds before it calls         *)
(* server.close, and returns while those processes still run.  The code    *)
(* does not keep it.                                                       *)
C26_ShutdownKillsAll ==
    step.action = "shutdown" =>
        \A c \in ConvIds :
            claudeProcesses[c] # 0 =>
                /\ \E i \in DOMAIN Effects :
                       /\ Effects[i] = Killed(claudeProcesses[c])
                       /\ \A j \in DOMAIN Effects : Effects[j].op = "close" => i < j
                /\ procs[claudeProcesses[c]].running

-----------------------------------------------------------------------------
(* C27 as the claim has it: the 'close' event of a stream request unbinds  *)
(* the conversation's sink only if the sink is that request's own          *)
(* response; when another response is bound, it stays bound.  The code     *)
(* does not keep it.                                                       *)
C27_CloseUnbindsOwn ==
    [][step'.action = "close" =>
         \A r \in Rids :
             (resps[r].open /\ ~resps'[r].open) =>
                 activeStreams'[step'.conv] =
                     IF activeStreams[step'.conv] = r THEN 0
                     ELSE activeStreams[step'.conv]]_vars

(* C28 as the claim has it: the messages of a conversation are written to  *)
(* the process input in the order of their requests; so no request writes  *)
(* its message while the message of an earlier request of the conversation *)
(* still waits in a timer.  The code does not keep it.                     *)
C28_WritesInRequestOrder ==
    (step.action = "message" /\ SelectSeq(Effects, LAMBDA e : e.op = "stdin") # <<>>) =>
        Pending(step.conv) = 0

\* The handler that ran last spawned a process that starts session sid anew.
StartsSession(sid) ==
    /\ SpawnOf(Effects) # <<>>
    /\ SpawnOf(Effects)[1].args.sessionId = sid

(* C29 as the claim has it: for every session id, once a process has been *)
(* spawned with --session-id <id>, no later spawn uses --session-id <id>.  *)
(* The code does not keep it.                                              *)
C29_OneNewSessionSpawn ==
    \A sid \in SessionIds :
        [](StartsSession(sid) => [](~StartsSession(sid) => []~StartsSession(sid)))

-----------------------------------------------------------------------------
\* The events of a conversation that C30 is about.
ConversationEvents == {"data", "exit", "stream", "close"}

\* Conversation B holds a process, a bound sink and a fragment of a line.
Busy(B) ==
    /\ claudeProcesses[B] # 0
    /\ activeStreams[B] # 0
    /\ outputBuffers[B] # <<>> /\ outputBuffers[B][1] # <<>>

(* C30: conversations are isolated.  A stdout chunk, a process exit, a     *)
(* sink attach or a client disconnect of conversation A leaves the process *)
(* handle, the line buffer and the bound sink of every other conversation  *)
(* B as they were, and writes no frame to, and does not end, the response  *)
(* bound to B.                                                             *)
C30_Isolation ==
    [][step'.action \in ConversationEvents =>
         \A B \in ConvIds \ {step'.conv} :
             /\ claudeProcesses'[B] = claudeProcesses[B]
             /\ outputBuffers'[B] = outputBuffers[B]
             /\ activeStreams'[B] = activeStreams[B]
             /\ activeStreams[B] # 0 =>
                    /\ resps'[activeStreams[B]] = resps[activeStreams[B]]
                    /\ \A i \in DOMAIN step'.effects :
                           step'.effects[i].op \in {"write", "end"} =>
                               step'.effects[i].res # activeStreams[B]]_vars

\* A chunk of one conversation was turned into frames and the conversation
\* cleaned up while the other one holds a process, a sink and a fragment.
C30_Witness ==
    /\ step.action = "data"
    /\ \E i \in DOMAIN Effects : TerminalWrite(Effects[i])
    /\ CleanedUp(step.conv)
    /\ \E B \in ConvIds \ {step.conv} : Busy(B)

-----------------------------------------------------------------------------
\* The handler that ran last called res.end() on r and then went on to a
\* write or an end that names r.
UsedAfterEnd(r) ==
    \E i, j \in DOMAIN Effects :
        /\ i < j
        /\ Effects[i] = Ended(r)
        /\ Effects[j].op \in {"write", "end"} /\ Effects[j].res = r

(* C31: the bridge never writes a frame to a response it has ended and     *)
(* never ends a response a second time, whatever the interleaving of       *)
(* chunks (several lines in one chunk after a terminal record included),   *)
(* process exit, sink attach and client disconnect.                        *)
C31_NoUseAfterEnd ==
    \A r \in Rids :
        /\ ~resps[r].late
        /\ resps[r].ends < 2
        /\ ~UsedAfterEnd(r)

\* One chunk brought a terminal record and a later line: the response was
\* ended, and the later line was parsed in the same handler run.
C31_Witness ==
    /\ step.action = "data"
    /\ \E r \in Rids, i, j \in DOMAIN Effects :
           /\ i < j
           /\ Effects[i] = Ended(r)
           /\ Effects[j].op = "parse"
           /\ resps[r].open /\ resps[r].ends = 1

====
